---------------------------- MODULE Spec2Model ----------------------------
(***************************************************************************)
(* glitch: the pixel-visiting pipeline of src/main.rs (main and process),  *)
(* with the three modules it calls (parser, eval, bounds).  Only main.rs   *)
(* is part of the sources; parser::shunting_yard, eval::eval and           *)
(* bounds::find_non_zero_bounds are modelled from the specification text.  *)
(* The input file is taken to exist (main, line 36).                       *)
(***************************************************************************)
EXTENDS Integers, Sequences, FiniteSets, TLC

(***************************************************************************)
(* Bounds of the model.                                                    *)
(***************************************************************************)
Width == 2
Height == 2
MaxExprs == 2
MaxFrames == 2

\* u8 channels: the largest channel value.
U8Max == 255

Xs == 0 .. (Width - 1)
Ys == 0 .. (Height - 1)

(***************************************************************************)
(* Pixels are <<r, g, b, a>>; an image is a function x -> y -> pixel.      *)
(***************************************************************************)
ZeroPixel == <<0, 0, 0, 0>>
Palette == { ZeroPixel, <<254, 0, 3, 0>> }
Images == [Xs -> [Ys -> Palette]]

\* DynamicImage::new(w, h, Rgba8): every byte of the buffer is zero.
NewImage == [x \in Xs |-> [y \in Ys |-> ZeroPixel]]

\* GenericImage::put_pixel
PutPixel(image, x, y, p) == [image EXCEPT ![x][y] = p]

(***************************************************************************)
(* Expressions.  An expression string is modelled as its sequence of       *)
(* lexemes; the token sequence the parser emits is a sequence of lexemes   *)
(* in postfix order.                                                       *)
(***************************************************************************)
Numerals == {"0", "1", "2"}
NumVal(s) == CASE s = "0" -> 0 [] s = "1" -> 1 [] s = "2" -> 2
Variables == {"x", "y", "w", "h", "r", "g", "b", "a", "sr", "sg", "sb", "rand"}
Operators == {"+", "-", "*", "/"}
Prec(o) == IF o \in {"*", "/"} THEN 2 ELSE 1

ExprRed == <<"r", "+", "1">>
ExprGreen == <<"g", "+", "1">>
ExprSaved == <<"sr", "+", "1">>
ExprInv == <<"1", "/", "r">>
ExprRand == <<"rand">>
ExprDangling == <<"1", "+">>
ExprUnclosed == <<"(", "1", "+", "2">>
ExprStrings ==
  {ExprRed, ExprGreen, ExprSaved, ExprInv, ExprRand, ExprDangling, ExprUnclosed}

Ok(v) == [ok |-> TRUE, val |-> v]
Err(m) == [ok |-> FALSE, err |-> m]

(***************************************************************************)
(* parser::shunting_yard.  The operator stack has its top at the end.      *)
(***************************************************************************)
RECURSIVE PopOperators(_, _, _)
PopOperators(out, ops, o) ==
  IF ops # <<>> /\ ops[Len(ops)] \in Operators /\ Prec(ops[Len(ops)]) >= Prec(o)
  THEN PopOperators(Append(out, ops[Len(ops)]), SubSeq(ops, 1, Len(ops) - 1), o)
  ELSE <<out, ops>>

RECURSIVE PopToParen(_, _)
PopToParen(out, ops) ==
  IF ops = <<>> THEN Err("mismatched parentheses")
  ELSE IF ops[Len(ops)] = "(" THEN Ok(<<out, SubSeq(ops, 1, Len(ops) - 1)>>)
  ELSE PopToParen(Append(out, ops[Len(ops)]), SubSeq(ops, 1, Len(ops) - 1))

RECURSIVE Drain(_, _)
Drain(out, ops) ==
  IF ops = <<>> THEN Ok(out)
  ELSE IF ops[Len(ops)] = "(" THEN Err("mismatched parentheses")
  ELSE Drain(Append(out, ops[Len(ops)]), SubSeq(ops, 1, Len(ops) - 1))

\* The depth of the value stack after a forward pass, or -1 on underflow.
RECURSIVE StackDepth(_, _, _)
StackDepth(tokens, i, d) ==
  IF i > Len(tokens) THEN d
  ELSE IF tokens[i] \in Operators
       THEN IF d < 2 THEN -1 ELSE StackDepth(tokens, i + 1, d - 1)
       ELSE StackDepth(tokens, i + 1, d + 1)

RECURSIVE Shunt(_, _, _, _)
Shunt(e, i, out, ops) ==
  IF i > Len(e)
  THEN LET d == Drain(out, ops)
       IN  IF ~d.ok THEN d
           ELSE IF StackDepth(d.val, 1, 0) # 1 THEN Err("missing operand")
           ELSE d
  ELSE LET tok == e[i]
       IN  IF tok \in Numerals \cup Variables
           THEN Shunt(e, i + 1, Append(out, tok), ops)
           ELSE IF tok \in Operators
           THEN LET p == PopOperators(out, ops, tok)
                IN  Shunt(e, i + 1, p[1], Append(p[2], tok))
           ELSE IF tok = "("
           THEN Shunt(e, i + 1, out, Append(ops, tok))
           ELSE IF tok = ")"
           THEN LET p == PopToParen(out, ops)
                IN  IF p.ok THEN Shunt(e, i + 1, p.val[1], p.val[2]) ELSE p
           ELSE Err("unknown token")

shunting_yard(e) == Shunt(e, 1, <<>>, <<>>)

(***************************************************************************)
(* eval::eval.  A stack machine over the postfix tokens.  One scalar is    *)
(* computed and applied to r, g and b alike; alpha is the pixel's own.     *)
(* Division by zero fails.  The result is clamped to [0, 255]; division    *)
(* truncates (the expressions here divide last, so truncating the         *)
(* quotient is truncating the final value).                                *)
(***************************************************************************)
Lookup(ctx, rv, name) ==
  CASE name = "x" -> ctx.position[1]
    [] name = "y" -> ctx.position[2]
    [] name = "w" -> ctx.size[1]
    [] name = "h" -> ctx.size[2]
    [] name = "r" -> ctx.rgba[1]
    [] name = "g" -> ctx.rgba[2]
    [] name = "b" -> ctx.rgba[3]
    [] name = "a" -> ctx.rgba[4]
    [] name = "sr" -> ctx.saved_rgb[1]
    [] name = "sg" -> ctx.saved_rgb[2]
    [] name = "sb" -> ctx.saved_rgb[3]
    [] name = "rand" -> rv

Apply(o, a, b) ==
  CASE o = "+" -> a + b
    [] o = "-" -> a - b
    [] o = "*" -> a * b
    [] o = "/" -> a \div b

Clamp(v) == IF v < 0 THEN 0 ELSE IF v > U8Max THEN U8Max ELSE v

RECURSIVE Run(_, _, _, _)
Run(ctx, rv, i, stack) ==
  IF i > Len(ctx.tokens)
  THEN IF Len(stack) = 1 THEN Ok(stack[1]) ELSE Err("stack not singleton")
  ELSE LET tok == ctx.tokens[i]
           n == Len(stack)
       IN  IF tok \in Numerals THEN Run(ctx, rv, i + 1, Append(stack, NumVal(tok)))
           ELSE IF tok \in Variables
           THEN Run(ctx, rv, i + 1, Append(stack, Lookup(ctx, rv, tok)))
           ELSE IF n < 2 THEN Err("stack underflow")
           ELSE IF tok = "/" /\ stack[n] = 0 THEN Err("division by zero")
           ELSE Run(ctx, rv, i + 1,
                    Append(SubSeq(stack, 1, n - 2), Apply(tok, stack[n - 1], stack[n])))

eval(ctx, image, rv) ==
  LET res == Run(ctx, rv, 1, <<>>)
  IN  IF res.ok
      THEN LET v == Clamp(res.val) IN Ok(<<v, v, v, ctx.rgba[4]>>)
      ELSE res

(***************************************************************************)
(* bounds::find_non_zero_bounds: the smallest half-open rectangle holding  *)
(* every non-zero pixel, or an error when every pixel is zero.  A pixel    *)
(* counts as non-zero when any of its four channels is.                    *)
(***************************************************************************)
NonZero(image) == {p \in Xs \X Ys : image[p[1]][p[2]] # ZeroPixel}

SetMin(S) == CHOOSE m \in S : \A n \in S : m <= n
SetMax(S) == CHOOSE m \in S : \A n \in S : m >= n

find_non_zero_bounds(image) ==
  LET nz == NonZero(image)
      xs == {p[1] : p \in nz}
      ys == {p[2] : p \in nz}
  IN  IF nz = {} THEN Err("no non-zero pixel")
      ELSE Ok([min_x |-> SetMin(xs), max_x |-> SetMax(xs) + 1,
               min_y |-> SetMin(ys), max_y |-> SetMax(ys) + 1])

\* rand::thread_rng(): the values one draw may yield.
RandVals == {0, 7}

\* The draws one evaluation can make: eval consumes the randomness source
\* only when the expression refers to it.
UsesRandom(tokens) == \E i \in 1 .. Len(tokens) : tokens[i] = "rand"
Draws(tokens) == IF UsesRandom(tokens) THEN RandVals ELSE {0}

(***************************************************************************)
(* The program's state.                                                    *)
(***************************************************************************)
VARIABLES
  expressions,   \* args.expressions: the expression strings, in order
  format,        \* get_format(path)
  file,          \* the frames the input file decodes to
  pc,            \* where main / process stands
  outcome,       \* "running", "ok", "err" (main returned Err) or "panic"
  pidx,          \* main's loop over args.expressions
  parsed,        \* main's parsed: <<expression, tokens>> pairs
  reported,      \* what the parse-error branch printed
  frameNo,       \* the frame process is called with
  written,       \* the images saved to the output file, in order
  img,           \* process: the current image
  output_image,  \* process: the output buffer
  eidx,          \* process: the loop over expressions
  saved_rgb,     \* process: sr, sg, sb
  bounds,        \* process: min_x, max_x, min_y, max_y of the pass
  pos,           \* process: x, y of the pixel loops
  passlog        \* history: per pass of this call, the evaluations made

inputVars == <<expressions, format, file>>
mainVars == <<pidx, parsed, reported, frameNo, written>>
procVars == <<img, output_image, eidx, saved_rgb, bounds, pos, passlog>>
vars == <<expressions, format, file, pc, outcome, pidx, parsed, reported,
          frameNo, written, img, output_image, eidx, saved_rgb, bounds, pos,
          passlog>>

Formats == {"png", "jpeg", "gif", "bmp"}
NoBounds == [min_x |-> 0, max_x |-> 0, min_y |-> 0, max_y |-> 0]

SeqsUpTo(S, n) == UNION {[1 .. k -> S] : k \in 0 .. n}

Init ==
  /\ expressions \in SeqsUpTo(ExprStrings, MaxExprs)
  /\ format \in Formats
  /\ file \in IF format = "gif" THEN SeqsUpTo(Images, MaxFrames) \ {<<>>}
              ELSE [1 .. 1 -> Images]
  /\ pc = "parse"
  /\ outcome = "running"
  /\ pidx = 1
  /\ parsed = <<>>
  /\ reported = <<>>
  /\ frameNo = 0
  /\ written = <<>>
  /\ img = NewImage
  /\ output_image = NewImage
  /\ eidx = 0
  /\ saved_rgb = <<0, 0, 0>>
  /\ bounds = NoBounds
  /\ pos = <<0, 0>>
  /\ passlog = <<>>

(***************************************************************************)
(* main, lines 40-52: parse every expression; the first one that fails is  *)
(* printed and main returns Ok(()).                                        *)
(***************************************************************************)
OnParseErrorSkip(e, err) ==
  /\ reported' = Append(reported, [expression |-> e, error |-> err])
  /\ pidx' = pidx + 1
  /\ UNCHANGED <<pc, outcome, parsed>>

OnParseError(e, err) ==
  /\ reported' = Append(reported, [expression |-> e, error |-> err])
  /\ pc' = "exit"
  /\ outcome' = "ok"
  /\ UNCHANGED <<pidx, parsed>>

ParseExpression ==
  /\ pc = "parse"
  /\ pidx <= Len(expressions)
  /\ LET e == expressions[pidx]
         res == shunting_yard(e)
     IN  IF res.ok
         THEN /\ parsed' = Append(parsed, <<e, res.val>>)
              /\ pidx' = pidx + 1
              /\ UNCHANGED <<pc, outcome, reported>>
         ELSE OnParseError(e, res.err)
  /\ UNCHANGED <<inputVars, frameNo, written, procVars>>

(***************************************************************************)
(* process, lines 105-106: entry.                                          *)
(***************************************************************************)
NewOutputFromInput(image) == image

NewOutput(image) == NewImage

ProcessEnter(image) ==
  /\ img' = image
  /\ output_image' = NewOutput(image)
  /\ eidx' = 1
  /\ passlog' = <<>>
  /\ pc' = "expr"
  /\ UNCHANGED <<saved_rgb, bounds, pos>>

(***************************************************************************)
(* main, lines 54-85: decode and dispatch on the format.                   *)
(***************************************************************************)
Decode ==
  /\ pc = "parse"
  /\ pidx > Len(expressions)
  /\ IF format \in {"png", "jpeg"}
     THEN /\ frameNo' = 1
          /\ ProcessEnter(file[1])
          /\ UNCHANGED <<outcome, written>>
     ELSE IF format = "gif"
     THEN /\ pc' = "frames"
          /\ UNCHANGED <<outcome, frameNo, written, procVars>>
     ELSE /\ pc' = "exit"
          /\ outcome' = "err"
          /\ UNCHANGED <<frameNo, written, procVars>>
  /\ UNCHANGED <<inputVars, pidx, parsed, reported>>

(***************************************************************************)
(* main, lines 86-90 and 102: the loop over the frames of a gif.           *)
(***************************************************************************)
NextFrame ==
  /\ pc = "frames"
  /\ IF frameNo < Len(file)
     THEN /\ frameNo' = frameNo + 1
          /\ ProcessEnter(file[frameNo + 1])
          /\ UNCHANGED outcome
     ELSE /\ pc' = "exit"
          /\ outcome' = "ok"
          /\ UNCHANGED <<frameNo, procVars>>
  /\ UNCHANGED <<inputVars, pidx, parsed, reported, written>>

(***************************************************************************)
(* process, lines 108-127 and 151: the head of the loop over expressions.  *)
(***************************************************************************)
\* sr, sg, sb kept in a static: never reset.
SeedCarryStale == saved_rgb

\* sr, sg, sb declared before the loop over expressions: reset once per call.
SeedCarryOnce == IF eidx = 1 THEN <<0, 0, 0>> ELSE saved_rgb

SeedCarry == <<0, 0, 0>>

OnBoundsErrorEmpty ==
  /\ bounds' = NoBounds
  /\ saved_rgb' = SeedCarry
  /\ passlog' = Append(passlog, <<>>)
  /\ pc' = "passend"
  /\ UNCHANGED <<outcome, pos>>

OnBoundsError ==
  /\ pc' = "exit"
  /\ outcome' = "panic"
  /\ UNCHANGED <<saved_rgb, bounds, pos, passlog>>

StartPass ==
  /\ pc = "expr"
  /\ IF eidx > Len(parsed)
     THEN /\ pc' = "returned"
          /\ UNCHANGED <<outcome, saved_rgb, bounds, pos, passlog>>
     ELSE LET b == find_non_zero_bounds(img)
          IN  IF ~b.ok THEN OnBoundsError
              ELSE /\ saved_rgb' = SeedCarry
                   /\ bounds' = b.val
                   /\ pos' = <<b.val.min_x, b.val.min_y>>
                   /\ passlog' = Append(passlog, <<>>)
                   /\ pc' = "pixel"
                   /\ UNCHANGED outcome
  /\ UNCHANGED <<inputVars, mainVars, img, output_image, eidx>>

(***************************************************************************)
(* process, lines 129-147: one iteration of the pixel loops.               *)
(***************************************************************************)
PutPositionSwapped(x, y) == <<y, x>>

PutPosition(x, y) == <<x, y>>

CarryAfterKept(result) == saved_rgb

CarryAfter(result) == <<result[1], result[2], result[3]>>

\* for x in min_x..max_x { for y in min_y..max_y
NextPositionRowMajor(b, p) ==
  IF p[1] + 1 < b.max_x THEN <<p[1] + 1, p[2]>> ELSE <<b.min_x, p[2] + 1>>

NextPosition(b, p) ==
  IF p[2] + 1 < b.max_y THEN <<p[1], p[2] + 1>> ELSE <<p[1] + 1, b.min_y>>

LoopsDone(b, p) == ~(p[1] < b.max_x /\ p[2] < b.max_y)

LogEval(entry) ==
  [passlog EXCEPT ![Len(passlog)] = Append(passlog[Len(passlog)], entry)]

OnEvalErrorDefault(entry) ==
  /\ passlog' = LogEval(entry)
  /\ pos' = NextPosition(bounds, pos)
  /\ pc' = IF LoopsDone(bounds, NextPosition(bounds, pos)) THEN "passend" ELSE "pixel"
  /\ UNCHANGED <<outcome, saved_rgb, output_image>>

OnEvalError(entry) ==
  /\ passlog' = LogEval(entry)
  /\ pc' = "exit"
  /\ outcome' = "panic"
  /\ UNCHANGED <<saved_rgb, output_image, pos>>

EvalPixel ==
  /\ pc = "pixel"
  /\ \E rv \in Draws(parsed[eidx][2]) :
       LET colors == img[pos[1]][pos[2]]
           ctx == [tokens |-> parsed[eidx][2],
                   size |-> <<Width, Height>>,
                   rgba |-> colors,
                   saved_rgb |-> saved_rgb,
                   position |-> pos]
           result == eval(ctx, img, rv)
           at == PutPosition(pos[1], pos[2])
           entry == [ctx |-> ctx, rv |-> rv, result |-> result, put |-> at]
       IN  IF ~result.ok THEN OnEvalError(entry)
           ELSE /\ saved_rgb' = CarryAfter(result.val)
                /\ output_image' = PutPixel(output_image, at[1], at[2], result.val)
                /\ passlog' = LogEval(entry)
                /\ pos' = NextPosition(bounds, pos)
                /\ pc' = IF LoopsDone(bounds, NextPosition(bounds, pos))
                         THEN "passend" ELSE "pixel"
                /\ UNCHANGED outcome
  /\ UNCHANGED <<inputVars, mainVars, img, eidx, bounds>>

(***************************************************************************)
(* process, line 149: the output becomes the next expression's input.      *)
(***************************************************************************)
NextInputKept(out, cur) == cur

NextInput(out, cur) == out

EndPass ==
  /\ pc = "passend"
  /\ img' = NextInput(output_image, img)
  /\ eidx' = eidx + 1
  /\ pc' = "expr"
  /\ UNCHANGED <<inputVars, mainVars, outcome, output_image, saved_rgb, bounds,
                 pos, passlog>>

(***************************************************************************)
(* main, lines 66-67 and 90-96: the image process returned is saved.       *)
(***************************************************************************)
SaveOutput ==
  /\ pc = "returned"
  /\ written' = Append(written, output_image)
  /\ IF format = "gif"
     THEN /\ pc' = "frames"
          /\ UNCHANGED outcome
     ELSE /\ pc' = "exit"
          /\ outcome' = "ok"
  /\ UNCHANGED <<inputVars, pidx, parsed, reported, frameNo, procVars>>

Next ==
  \/ ParseExpression
  \/ Decode
  \/ NextFrame
  \/ StartPass
  \/ EvalPixel
  \/ EndPass
  \/ SaveOutput

Spec == Init /\ [][Next]_vars

(***************************************************************************)
(* Definitions the properties are stated with.                             *)
(***************************************************************************)
\* The evaluations of the pass under way (or of the last pass started).
CurPass == passlog[Len(passlog)]

\* The pixels of a half-open rectangle, x ascending outside, y ascending inside.
ScanOrder(b) ==
  LET w == b.max_x - b.min_x
      h == b.max_y - b.min_y
  IN  [i \in 1 .. (w * h) |-> <<b.min_x + ((i - 1) \div h), b.min_y + ((i - 1) % h)>>]

InBounds(b, p) ==
  b.min_x <= p[1] /\ p[1] < b.max_x /\ b.min_y <= p[2] /\ p[2] < b.max_y

Rgb(p) == <<p[1], p[2], p[3]>>

\* The draws pass k of this call made, in order.
DrawsOf(k) ==
  IF k <= Len(passlog) THEN [i \in 1 .. Len(passlog[k]) |-> passlog[k][i].rv]
  ELSE <<>>

(***************************************************************************)
(* process called with a single expression, as a function of the image and *)
(* the draws: lines 105-152 with a one-element list.                       *)
(***************************************************************************)
RECURSIVE FoldPass(_, _, _, _, _, _, _)
FoldPass(image, tokens, draws, order, i, carry, out) ==
  IF i > Len(order) THEN Ok(out)
  ELSE LET p == order[i]
           res == eval([tokens |-> tokens, size |-> <<Width, Height>>,
                        rgba |-> image[p[1]][p[2]], saved_rgb |-> carry,
                        position |-> p], image, draws[i])
       IN  IF ~res.ok THEN res
           ELSE FoldPass(image, tokens, draws, order, i + 1, Rgb(res.val),
                         PutPixel(out, p[1], p[2], res.val))

ProcessOne(image, tokens, draws) ==
  LET b == find_non_zero_bounds(image)
  IN  IF ~b.ok THEN b
      ELSE FoldPass(image, tokens, draws, ScanOrder(b.val), 1, <<0, 0, 0>>, NewImage)

(***************************************************************************)
(* C1.  Chaining: the image process returns for two expressions e1, e2 is  *)
(* the image process returns for [e2] when called with the image it        *)
(* returns for [e1]; and when the call with two expressions panics, so     *)
(* does that composition.                                                  *)
(***************************************************************************)
C1_Chaining ==
  (frameNo >= 1 /\ Len(parsed) = 2 /\ (pc = "returned" \/ outcome = "panic")) =>
    LET first == ProcessOne(file[frameNo], parsed[1][2], DrawsOf(1))
    IN  IF pc = "returned"
        THEN /\ first.ok
             /\ LET second == ProcessOne(first.val, parsed[2][2], DrawsOf(2))
                IN  second.ok /\ second.val = output_image
        ELSE \/ ~first.ok
             \/ ~ProcessOne(first.val, parsed[2][2], DrawsOf(2)).ok

\* r+1 then g+1 returned an image that g+1 on the original would not give.
C1_Witness ==
  /\ pc = "returned"
  /\ frameNo >= 1
  /\ Len(parsed) = 2
  /\ parsed[1][1] = ExprRed
  /\ parsed[2][1] = ExprGreen
  /\ LET direct == ProcessOne(file[frameNo], parsed[2][2], DrawsOf(2))
     IN  direct.ok /\ direct.val # output_image

C3_CarryReset ==
  /\ \A k \in 1 .. Len(passlog) :
       passlog[k] # <<>> => passlog[k][1].ctx.saved_rgb = <<0, 0, 0>>
  /\ (pc = "pixel" /\ CurPass = <<>>) => saved_rgb = <<0, 0, 0>>

\* The second pass of the second frame has evaluated its first pixel, after
\* a pass that ended with a non-zero carried triplet.
C3_Witness ==
  /\ frameNo = 2
  /\ Len(passlog) = 2
  /\ passlog[1] # <<>>
  /\ passlog[2] # <<>>
  /\ passlog[1][Len(passlog[1])].result.ok
  /\ Rgb(passlog[1][Len(passlog[1])].result.val) # <<0, 0, 0>>
  /\ written[1] # NewImage

(***************************************************************************)
(* C4.  As claimed: every pass starts with an all-zero output image, and   *)
(* after a pass every output pixel outside the pass's bounds is zero.      *)
(***************************************************************************)
OutsideBoundsZero ==
  \A p \in Xs \X Ys : ~InBounds(bounds, p) => output_image[p[1]][p[2]] = ZeroPixel

C4_FreshOutputPerPass ==
  /\ (pc = "pixel" /\ CurPass = <<>>) => output_image = NewImage
  /\ pc = "passend" => OutsideBoundsZero

(***************************************************************************)
(* C4, amended.  The output image is allocated once per call of process    *)
(* and written by every pass; during and after any pass every output pixel *)
(* outside the pass's bounds is zero.                                      *)
(***************************************************************************)
C4_OutsideBoundsZero ==
  pc \in {"pixel", "passend"} => OutsideBoundsZero

\* A second pass has ended whose bounds are smaller than the first pass's.
C4_Witness ==
  /\ pc = "passend"
  /\ Len(passlog) = 2
  /\ Len(passlog[2]) < Len(passlog[1])
  /\ Len(passlog[2]) >= 1

(***************************************************************************)
(* C5.  As claimed: when an expression fails to parse and the others of    *)
(* the list are "r+1" (which parses, and evaluates at every pixel), the    *)
(* run goes on over a non-zero image and an image is saved.                *)
(***************************************************************************)
C5_ParseErrorIsolated ==
  (/\ pc = "exit"
   /\ format \in {"png", "jpeg"}
   /\ reported # <<>>
   /\ \E i \in 1 .. Len(expressions) : expressions[i] = ExprRed
   /\ \A i \in 1 .. Len(expressions) :
        expressions[i] = ExprRed \/ ~shunting_yard(expressions[i]).ok
   /\ NonZero(file[1]) # {}) => written # <<>>

(***************************************************************************)
(* C5, amended.  When an expression fails to parse, it is reported with    *)
(* its text and main returns at once: no expression after it is parsed,    *)
(* none is applied and no image is saved.                                  *)
(***************************************************************************)
FirstBad ==
  CHOOSE i \in 1 .. Len(expressions) :
    /\ ~shunting_yard(expressions[i]).ok
    /\ \A j \in 1 .. (i - 1) : shunting_yard(expressions[j]).ok

C5_ParseErrorEndsRun ==
  /\ reported # <<>> =>
       /\ pc = "exit"
       /\ outcome = "ok"
       /\ Len(reported) = 1
       /\ reported[1].expression = expressions[FirstBad]
       /\ Len(parsed) = FirstBad - 1
       /\ frameNo = 0
       /\ written = <<>>
       /\ passlog = <<>>
  /\ (pc # "parse" /\ \E i \in 1 .. Len(expressions) : ~shunting_yard(expressions[i]).ok)
       => reported # <<>>

\* The first of two expressions failed to parse and the second is well-formed.
C5_Witness ==
  /\ reported # <<>>
  /\ Len(expressions) = 2
  /\ ~shunting_yard(expressions[1]).ok
  /\ shunting_yard(expressions[2]).ok
  /\ NonZero(file[1]) # {}

(***************************************************************************)
(* C6.  A failed evaluation is the last thing the run does: it is the last *)
(* evaluation logged, the run has panicked, the failed pixel was not       *)
(* written and the call has saved no image.                                *)
(***************************************************************************)
C6_EvalFailureFatal ==
  \A k \in 1 .. Len(passlog) :
    \A i \in 1 .. Len(passlog[k]) :
      ~passlog[k][i].result.ok =>
        /\ k = Len(passlog)
        /\ i = Len(passlog[k])
        /\ pc = "exit"
        /\ outcome = "panic"
        /\ eidx = k
        /\ pos = passlog[k][i].ctx.position
        /\ output_image[pos[1]][pos[2]] = (IF k = 1 THEN ZeroPixel ELSE img[pos[1]][pos[2]])
        /\ Len(written) = (IF format = "gif" THEN frameNo - 1 ELSE 0)

\* An evaluation failed that was neither the first of its pass nor at the
\* last pixel of the bounds, with another expression still to come.
C6_Witness ==
  /\ outcome = "panic"
  /\ passlog # <<>>
  /\ Len(CurPass) >= 2
  /\ ~CurPass[Len(CurPass)].result.ok
  /\ Len(CurPass) < Len(ScanOrder(bounds))
  /\ eidx < Len(parsed)

(***************************************************************************)
(* C7.  No pass runs over an image without a non-zero pixel: such a pass   *)
(* panics before it evaluates anything.                                    *)
(***************************************************************************)
C7_BoundsFailureFatal ==
  /\ pc \in {"pixel", "passend"} => NonZero(img) # {}
  /\ (pc = "exit" /\ frameNo >= 1 /\ eidx <= Len(parsed) /\ NonZero(img) = {}) =>
        /\ outcome = "panic"
        /\ Len(passlog) = eidx - 1

\* The second pass panicked on the all-zero output of the first.
C7_Witness ==
  /\ outcome = "panic"
  /\ frameNo >= 1
  /\ eidx = 2
  /\ Len(passlog) = 1
  /\ NonZero(img) = {}
  /\ NonZero(file[frameNo]) # {}

NoRandom == \A i \in 1 .. Len(parsed) : ~UsesRandom(parsed[i][2])

C9_ScanOrder ==
  pc \in {"pixel", "passend"} =>
    LET order == ScanOrder(bounds)
        n == Len(CurPass)
    IN  /\ Len(order) = (bounds.max_x - bounds.min_x) * (bounds.max_y - bounds.min_y)
        /\ n <= Len(order)
        /\ \A i \in 1 .. n :
             /\ CurPass[i].ctx.position = order[i]
             /\ CurPass[i].put = order[i]
             /\ output_image[order[i][1]][order[i][2]] = CurPass[i].result.val
        /\ pc = "passend" => n = Len(order)
        /\ pc = "pixel" => (n < Len(order) /\ pos = order[n + 1])

\* A pass over the whole image has ended.
C9_Witness ==
  /\ pc = "passend"
  /\ Len(CurPass) = Width * Height
  /\ Width > 1
  /\ Height > 1

(***************************************************************************)
(* C10.  With no expression, process computes no bounds, evaluates nothing *)
(* and returns the all-zero image.                                         *)
(***************************************************************************)
C10_EmptyList ==
  (pc = "returned" /\ parsed = <<>>) =>
    /\ output_image = NewImage
    /\ passlog = <<>>
    /\ bounds = NoBounds

\* process returned for no expression and an input with a non-zero pixel.
C10_Witness ==
  /\ pc = "returned"
  /\ parsed = <<>>
  /\ NonZero(file[frameNo]) # {}

=============================================================================
